---------------------------- MODULE Spec2Model ----------------------------
(***************************************************************************)
(* Model of kivent/gamesystems.py: GameSystem (component bookkeeping and   *)
(* lifecycle hooks), GameMap (the world's current map) and GameView (the   *)
(* camera: focus-follow, drag, resize, clamping and the forced cascade).   *)
(*                                                                         *)
(* Coordinates are fixed-point numbers with one binary digit after the     *)
(* point: the integer n stands for n/2, so that 1.0 is 2 and size*.5 is    *)
(* exact for the (even) sizes used.                                        *)
(*                                                                         *)
(* Kivy semantics used: a ListProperty element assignment                  *)
(* (camera_pos[i] += d) dispatches on_camera_pos synchronously and         *)
(* unconditionally; an uncaught Python exception unwinds every frame and   *)
(* leaves the assignments already made.                                    *)
(***************************************************************************)
EXTENDS Integers, Sequences, FiniteSets, TLC

VARIABLES
    active,               \* GameSystem.active, per system
    renderable,           \* GameSystem.renderable, per system
    currentmap,           \* gameworld.currentmap
    map_size,             \* GameMap.map_size, per map
    entities,             \* gameworld.entities: id -> dict system_id -> data
    entity_ids,           \* GameSystem.entity_ids, per system
    camera_pos,           \* GameView.camera_pos
    size,                 \* GameView.size (Widget)
    pos,                  \* GameView.pos (Widget)
    do_scroll,            \* GameView.do_scroll
    focus_entity,         \* GameView.focus_entity
    entity_to_focus,      \* GameView.entity_to_focus
    has_camera_updated,   \* GameView.has_camera_updated
    force_camera_update,  \* GameView.force_camera_update
    stack,                \* the Python call stack of the running handler
    events,               \* observation: the on_camera_pos events so far
    last                  \* observation: the last call made from outside

vars == <<active, renderable, currentmap, map_size, entities, entity_ids,
          camera_pos, size, pos, do_scroll, focus_entity, entity_to_focus,
          has_camera_updated, force_camera_update, stack, events, last>>

--------------------------------------------------------------------------
\* Bounds of the model.

\* Frames the interpreter allows before "maximum recursion depth exceeded".
MaxDepth == 6
\* Largest |camera_pos| coordinate an unclamped drag may reach.
CamMax == 4
\* Longest entity_ids list.
MaxIds == 3

--------------------------------------------------------------------------
\* The world: systems, maps, entities.

None == "None"
\* entity_to_focus = None (NumericProperty(None, allownone=True))
NoneId == -1

Physics == "cymunk-physics"
View == "default_gameview"
Maps == {"map_a", "map_b"}
SystemIds == {Physics, View} \cup Maps
\* iteration order of the dict gameworld.systems
SystemOrder == <<Physics, "map_a", View, "map_b">>

\* the ids of gameworld.entities, and an id that is not in it
EntityIds == {0, 1}
StaleId == 2

Abs(x) == IF x < 0 THEN -x ELSE x
\* size[i]*.5
Half(x) == x \div 2
\* math.fabs(dist_x) + math.fabs(dist_y) >= 1
DeadZone == 2
\* math.fabs(dist_x) + math.fabs(dist_y) > 2
DragThreshold == 4

NoDist == <<>>

--------------------------------------------------------------------------
\* GameView.lock_scroll: the clamp, as a function of what it reads.
\* cp = self.camera_pos, ms = currentmap.map_size, sz = self.size,
\* ps = self.pos; tuples are <<x, y>> (Python index 0 is TLA+ index 1).

\* a plausible slip: the branches test the opposite edges (the delta is
\* clamped when it moves the camera below pos instead of above it)
lock_scroll_flipped(cp, ms, sz, ps, distance_x, distance_y) ==
    LET dx == IF cp[1] + distance_x < ps[1]
              THEN ps[1] - cp[1]
              ELSE IF cp[1] + ms[1] + distance_x >= ps[1] + sz[1]
                   THEN ps[1] + sz[1] - cp[1] - ms[1]
                   ELSE distance_x
        dy == IF cp[2] + distance_y < ps[2]
              THEN ps[2] - cp[2]
              ELSE IF cp[2] + ms[2] + distance_y >= ps[2] + sz[2]
                   THEN ps[2] + sz[2] - cp[2] - ms[2]
                   ELSE distance_y
    IN  <<dx, dy>>

\* a plausible slip: the far-edge branch of the y axis is missing
lock_scroll_no_far_y(cp, ms, sz, ps, distance_x, distance_y) ==
    LET dx == IF cp[1] + distance_x > ps[1]
              THEN ps[1] - cp[1]
              ELSE IF cp[1] + ms[1] + distance_x <= ps[1] + sz[1]
                   THEN ps[1] + sz[1] - cp[1] - ms[1]
                   ELSE distance_x
        dy == IF cp[2] + distance_y > ps[2]
              THEN ps[2] - cp[2]
              ELSE distance_y
    IN  <<dx, dy>>

lock_scroll(cp, ms, sz, ps, distance_x, distance_y) ==
    LET dx == IF cp[1] + distance_x > ps[1]
              THEN ps[1] - cp[1]
              ELSE IF cp[1] + ms[1] + distance_x <= ps[1] + sz[1]
                   THEN ps[1] + sz[1] - cp[1] - ms[1]
                   ELSE distance_x
        dy == IF cp[2] + distance_y > ps[2]
              THEN ps[2] - cp[2]
              ELSE IF cp[2] + ms[2] + distance_y <= ps[2] + sz[2]
                   THEN ps[2] + sz[2] - cp[2] - ms[2]
                   ELSE distance_y
    IN  <<dx, dy>>

--------------------------------------------------------------------------
\* GameSystem: component bookkeeping.  Each operator gives the outcome of
\* the call: the exception raised ("none" if it returns) and what it
\* leaves or returns.

\* the load hook: the default returns its argument
generate_component_data(entity_component_dict) == entity_component_dict

\* entity[key] = value on a dict
DictPut(d, key, value) ==
    [k \in (DOMAIN d) \cup {key} |-> IF k = key THEN value ELSE d[k]]

\* a plausible slip: the data is stored under the viewport's key
create_component_wrong_key(ents, ids, system_id, entity_id, data) ==
    IF entity_id \notin DOMAIN ents
    THEN [error |-> "KeyError", entities |-> ents, entity_ids |-> ids]
    ELSE [error |-> "none",
          entities |-> [ents EXCEPT ![entity_id] =
                           DictPut(@, View, generate_component_data(data))],
          entity_ids |-> Append(ids, entity_id)]

create_component(ents, ids, system_id, entity_id, data) ==
    IF entity_id \notin DOMAIN ents
    THEN [error |-> "KeyError", entities |-> ents, entity_ids |-> ids]
    ELSE [error |-> "none",
          entities |-> [ents EXCEPT ![entity_id] =
                           DictPut(@, system_id, generate_component_data(data))],
          entity_ids |-> Append(ids, entity_id)]

\* the save hook: entity = entities[entity_id]; return entity[system_id]
generate_entity_component_dict(ents, system_id, entity_id) ==
    IF entity_id \notin DOMAIN ents
    THEN [error |-> "KeyError", ret |-> <<>>]
    ELSE IF system_id \notin DOMAIN ents[entity_id]
         THEN [error |-> "KeyError", ret |-> <<>>]
         ELSE [error |-> "none", ret |-> <<ents[entity_id][system_id]>>]

save_component(ents, system_id, entity_id) ==
    generate_entity_component_dict(ents, system_id, entity_id)

\* list.index / list.remove work on the first occurrence
FirstIndex(ids, entity_id) ==
    CHOOSE i \in 1 .. Len(ids) :
        /\ ids[i] = entity_id
        /\ \A j \in 1 .. (i - 1) : ids[j] # entity_id

RemoveAt(ids, i) ==
    [j \in 1 .. (Len(ids) - 1) |-> IF j < i THEN ids[j] ELSE ids[j + 1]]

\* a plausible slip: an absent id is ignored and the last entry dropped
remove_entity_lenient(ids, entity_id) ==
    IF \E i \in 1 .. Len(ids) : ids[i] = entity_id
    THEN [error |-> "none", entity_ids |-> RemoveAt(ids, Len(ids))]
    ELSE [error |-> "none", entity_ids |-> ids]

remove_entity(ids, entity_id) ==
    IF \E i \in 1 .. Len(ids) : ids[i] = entity_id
    THEN [error |-> "none",
          entity_ids |-> RemoveAt(ids, FirstIndex(ids, entity_id))]
    ELSE [error |-> "ValueError", entity_ids |-> ids]

--------------------------------------------------------------------------
\* The call stack.  A frame of update, on_size or on_touch_move stands
\* before its first element assignment (pc "x"), before its second
\* (pc "y"), or inside the dispatch of its second (pc "ret").  A frame of
\* on_camera_pos stands in its loop, before systems[SystemOrder[i]].

Frame(proc, dx, dy) ==
    [proc |-> proc, pc |-> "x", dist_x |-> dx, dist_y |-> dy,
     i |-> 0, called |-> <<>>]

CascadeFrame ==
    [proc |-> "on_camera_pos", pc |-> "loop", dist_x |-> 0, dist_y |-> 0,
     i |-> 1, called |-> <<>>]

Top(s) == s[Len(s)]
Pop(s) == SubSeq(s, 1, Len(s) - 1)
ReplaceTop(s, f) == [s EXCEPT ![Len(s)] = f]

\* the stack once the handler on top of s has returned: a frame whose
\* second assignment was being dispatched returns with it
Returned(s) ==
    IF Pop(s) # <<>> /\ Top(Pop(s)).pc = "ret" THEN Pop(Pop(s)) ELSE Pop(s)

Idle == stack = <<>>

\* the record of a call made from outside (no handler running)
NewCall(op, arg) ==
    [op |-> op, arg |-> arg, error |-> "none", ret |-> <<>>,
     camera_pos |-> camera_pos, size |-> size, dist |-> NoDist,
     events |-> 0,
     cascaded |-> FALSE, cascade |-> <<>>]

\* an exception nobody catches: every frame is left
Raise(error) ==
    /\ stack' = <<>>
    /\ last' = [last EXCEPT !.error = error]

--------------------------------------------------------------------------
\* GameView.update up to its test of the dead zone: the exception it
\* raises, the clamped delta and whether the delta is applied.
\* self.lock_scroll is the method (the def replaces the BooleanProperty of
\* the same name in the class body), so "if self.lock_scroll" is taken.

\* a plausible slip: a focus id that names no entity is passed over
GameView_update_skips_stale ==
    IF ~focus_entity \/ entity_to_focus \notin DOMAIN entities
    THEN [error |-> "none", dist |-> NoDist, move |-> FALSE]
    ELSE IF Physics \notin DOMAIN entities[entity_to_focus]
    THEN [error |-> "KeyError", dist |-> NoDist, move |-> FALSE]
    ELSE IF currentmap = None
    THEN [error |-> "AttributeError", dist |-> NoDist, move |-> FALSE]
    ELSE
      LET position_data == entities[entity_to_focus][Physics].position
          dist_x == -camera_pos[1] - position_data[1] + Half(size[1])
          dist_y == -camera_pos[2] - position_data[2] + Half(size[2])
          d == lock_scroll(camera_pos, map_size[currentmap], size, pos,
                           dist_x, dist_y)
      IN  [error |-> "none", dist |-> d,
           move |-> Abs(d[1]) + Abs(d[2]) >= DeadZone]

GameView_update ==
    IF ~focus_entity
    THEN [error |-> "none", dist |-> NoDist, move |-> FALSE]
    ELSE IF entity_to_focus \notin DOMAIN entities
    THEN [error |-> "KeyError", dist |-> NoDist, move |-> FALSE]
    ELSE IF Physics \notin DOMAIN entities[entity_to_focus]
    THEN [error |-> "KeyError", dist |-> NoDist, move |-> FALSE]
    ELSE IF currentmap = None
    THEN [error |-> "AttributeError", dist |-> NoDist, move |-> FALSE]
    ELSE
      LET position_data == entities[entity_to_focus][Physics].position
          dist_x == -camera_pos[1] - position_data[1] + Half(size[1])
          dist_y == -camera_pos[2] - position_data[2] + Half(size[2])
          d == lock_scroll(camera_pos, map_size[currentmap], size, pos,
                           dist_x, dist_y)
      IN  [error |-> "none", dist |-> d,
           move |-> Abs(d[1]) + Abs(d[2]) >= DeadZone]

\* a plausible slip: the test of the guard is the wrong way round
on_camera_pos_inverted(rest, below) ==
    LET starts == force_camera_update /\ has_camera_updated
        seen == [last EXCEPT !.events = @ + 1]
    IN  /\ events' = [n |-> (events.n + 1) % 2, cascade |-> starts]
        /\ IF starts
           THEN /\ UNCHANGED has_camera_updated
                /\ IF Len(below) >= MaxDepth
                   THEN /\ stack' = <<>>
                        /\ last' = [seen EXCEPT !.error = "RuntimeError"]
                   ELSE /\ stack' = Append(below, CascadeFrame)
                        /\ last' = seen
           ELSE /\ has_camera_updated' =
                      IF force_camera_update THEN TRUE ELSE has_camera_updated
                /\ stack' = rest
                /\ last' = seen

\* GameView.on_camera_pos, entered by the dispatch of an element
\* assignment.  rest: the stack if the handler returns at once; below: the
\* stack under the handler's frame if it starts the cascade.
on_camera_pos(rest, below) ==
    LET starts == force_camera_update /\ ~has_camera_updated
        seen == [last EXCEPT !.events = @ + 1]
    IN  /\ events' = [n |-> (events.n + 1) % 2, cascade |-> starts]
        /\ IF starts
           THEN /\ UNCHANGED has_camera_updated
                /\ IF Len(below) >= MaxDepth
                   THEN /\ stack' = <<>>
                        /\ last' = [seen EXCEPT !.error = "RuntimeError"]
                   ELSE /\ stack' = Append(below, CascadeFrame)
                        /\ last' = seen
           ELSE /\ has_camera_updated' =
                      IF force_camera_update THEN FALSE ELSE has_camera_updated
                /\ stack' = rest
                /\ last' = seen

\* self.camera_pos[0] += dist_x  /  self.camera_pos[1] += dist_y
\* (lines 107-108, 114-115, 137-138) and the dispatch it causes
Assign ==
    /\ ~Idle
    /\ Top(stack).proc \in {"update", "on_size", "on_touch_move"}
    /\ LET f == Top(stack)
       IN  \/ /\ f.pc = "x"
              /\ camera_pos' = <<camera_pos[1] + f.dist_x, camera_pos[2]>>
              /\ on_camera_pos(ReplaceTop(stack, [f EXCEPT !.pc = "y"]),
                               ReplaceTop(stack, [f EXCEPT !.pc = "y"]))
           \/ /\ f.pc = "y"
              /\ camera_pos' = <<camera_pos[1], camera_pos[2] + f.dist_y>>
              /\ on_camera_pos(Pop(stack),
                               ReplaceTop(stack, [f EXCEPT !.pc = "ret"]))
    /\ UNCHANGED <<active, renderable, currentmap, map_size, entities,
                   entity_ids, size, pos, do_scroll, focus_entity,
                   entity_to_focus, force_camera_update>>

\* the systems the loop of on_camera_pos still has to visit, from index i
Eligible(i) ==
    {k \in i .. Len(SystemOrder) :
        renderable[SystemOrder[k]] /\ active[SystemOrder[k]]}

Min(S) == CHOOSE k \in S : \A m \in S : k <= m

\* one pass of the loop of on_camera_pos (lines 122-124): the next
\* renderable, active system gets update(None); after the last one,
\* has_camera_updated = True (line 125) and the handler returns
Cascade ==
    /\ ~Idle
    /\ Top(stack).proc = "on_camera_pos"
    /\ LET f == Top(stack)
       IN  IF Eligible(f.i) = {}
           THEN /\ has_camera_updated' = TRUE
                /\ stack' = Returned(stack)
                /\ last' = [last EXCEPT !.cascaded = TRUE,
                                        !.cascade = f.called]
           ELSE LET k == Min(Eligible(f.i))
                    system == SystemOrder[k]
                    g == [f EXCEPT !.i = k + 1,
                                   !.called = Append(@, system)]
                    o == IF system = View
                         THEN GameView_update
                         ELSE [error |-> "none", dist |-> NoDist,
                               move |-> FALSE]
                IN  /\ UNCHANGED has_camera_updated
                    /\ IF o.error # "none"
                       THEN Raise(o.error)
                       ELSE IF ~o.move
                       THEN /\ stack' = ReplaceTop(stack, g)
                            /\ UNCHANGED last
                       ELSE IF Len(stack) >= MaxDepth
                       THEN Raise("RuntimeError")
                       ELSE /\ stack' = Append(ReplaceTop(stack, g),
                                   Frame("update", o.dist[1], o.dist[2]))
                            /\ UNCHANGED last
    /\ UNCHANGED <<active, renderable, currentmap, map_size, entities,
                   entity_ids, camera_pos, size, pos, do_scroll,
                   focus_entity, entity_to_focus, force_camera_update,
                   events>>

--------------------------------------------------------------------------
\* Calls made from outside while no handler is running.

\* the values the viewport and the maps take in the camera specification
ViewSizes == {<<4, 4>>, <<8, 6>>}
MapSizes == [map_a |-> <<8, 8>>, map_b |-> <<6, 4>>]
FocusPosition == <<5, 5>>
DragDeltas == {<<-3, -2>>, <<2, 3>>, <<1, -1>>, <<0, -5>>}
RenderableChoices ==
    {[s \in SystemIds |-> s \in R] :
        R \in {{"map_a"}, {View, Physics, "map_b"}}}

InReach(p) == Abs(p[1]) <= CamMax /\ Abs(p[2]) <= CamMax

\* the world's tick: GameView.update(dt)
update ==
    /\ Idle
    /\ LET o == GameView_update
       IN  /\ last' = [NewCall("update", <<>>) EXCEPT !.error = o.error,
                                                      !.dist = o.dist]
           /\ stack' = IF o.move
                       THEN <<Frame("update", o.dist[1], o.dist[2])>>
                       ELSE <<>>
    /\ UNCHANGED <<active, renderable, currentmap, map_size, entities,
                   entity_ids, camera_pos, size, pos, do_scroll,
                   focus_entity, entity_to_focus, has_camera_updated,
                   force_camera_update, events>>

\* the layout gives the viewport another size: GameView.on_size
on_size(value) ==
    /\ Idle
    /\ value # size
    /\ size' = value
    /\ IF currentmap # None
       THEN LET d == lock_scroll(camera_pos, map_size[currentmap], value,
                                 pos, 0, 0)
            IN  /\ last' = [NewCall("on_size", value) EXCEPT !.dist = d]
                /\ stack' = <<Frame("on_size", d[1], d[2])>>
       ELSE /\ last' = NewCall("on_size", value)
            /\ stack' = <<>>
    /\ UNCHANGED <<active, renderable, currentmap, map_size, entities,
                   entity_ids, camera_pos, pos, do_scroll, focus_entity,
                   entity_to_focus, has_camera_updated,
                   force_camera_update, events>>

\* a drag: GameView.on_touch_move with touch.dx, touch.dy
on_touch_move(dx, dy) ==
    /\ Idle
    /\ LET far == Abs(dx) + Abs(dy) > DragThreshold
           d == IF currentmap # None
                THEN lock_scroll(camera_pos, map_size[currentmap], size,
                                 pos, dx, dy)
                ELSE <<dx, dy>>
       IN  IF do_scroll /\ far
           THEN /\ InReach(<<camera_pos[1] + d[1], camera_pos[2] + d[2]>>)
                /\ last' = [NewCall("on_touch_move", <<dx, dy>>)
                               EXCEPT !.dist = d]
                /\ stack' = <<Frame("on_touch_move", d[1], d[2])>>
           ELSE /\ last' = NewCall("on_touch_move", <<dx, dy>>)
                /\ stack' = <<>>
    /\ UNCHANGED <<active, renderable, currentmap, map_size, entities,
                   entity_ids, camera_pos, size, pos, do_scroll,
                   focus_entity, entity_to_focus, has_camera_updated,
                   force_camera_update, events>>

\* a plausible slip: the flag follows the truth value of the id, and
\* entity 0 counts as no focus
on_entity_to_focus_truthy(value) ==
    /\ Idle
    /\ value # entity_to_focus
    /\ entity_to_focus' = value
    /\ focus_entity' = (value # NoneId /\ value # 0)
    /\ last' = NewCall("on_entity_to_focus", value)
    /\ UNCHANGED <<active, renderable, currentmap, map_size, entities,
                   entity_ids, camera_pos, size, pos, do_scroll,
                   has_camera_updated, force_camera_update, stack, events>>

\* entity_to_focus is given another value: GameView.on_entity_to_focus
on_entity_to_focus(value) ==
    /\ Idle
    /\ value # entity_to_focus
    /\ entity_to_focus' = value
    /\ focus_entity' = ~(value = NoneId)
    /\ last' = NewCall("on_entity_to_focus", value)
    /\ UNCHANGED <<active, renderable, currentmap, map_size, entities,
                   entity_ids, camera_pos, size, pos, do_scroll,
                   has_camera_updated, force_camera_update, stack, events>>

--------------------------------------------------------------------------
\* Lifecycle hooks.

\* GameSystem.on_add_system, and GameMap's extension of it
\* (self.gameworld is the shared world, so "if self.gameworld" is taken)
on_add_system(system) ==
    /\ Idle
    /\ active' = [active EXCEPT ![system] = TRUE]
    /\ currentmap' = IF system \in Maps THEN system ELSE currentmap
    /\ last' = NewCall("on_add_system", system)
    /\ UNCHANGED <<renderable, map_size, entities, entity_ids, camera_pos,
                   size, pos, do_scroll, focus_entity, entity_to_focus,
                   has_camera_updated, force_camera_update, stack, events>>

\* a plausible slip: a removed map stays in the slot
GameMap_on_remove_system_keeps(system, current) == current

\* a plausible slip: the current map is cleared whoever holds the slot
GameMap_on_remove_system_unguarded(system, current) == None

\* the slot after GameMap.on_remove_system (lines 72-73)
GameMap_on_remove_system(system, current) ==
    IF current = system THEN None ELSE current

\* GameSystem.on_remove_system, and GameMap's extension of it
on_remove_system(system) ==
    /\ Idle
    /\ active' = [active EXCEPT ![system] = FALSE]
    /\ currentmap' = IF system \in Maps
                     THEN GameMap_on_remove_system(system, currentmap)
                     ELSE currentmap
    /\ last' = NewCall("on_remove_system", system)
    /\ UNCHANGED <<renderable, map_size, entities, entity_ids, camera_pos,
                   size, pos, do_scroll, focus_entity, entity_to_focus,
                   has_camera_updated, force_camera_update, stack, events>>

--------------------------------------------------------------------------
\* The camera specification: one viewport, two maps and a physics system
\* in one world; entity 0 has a position, entity 1 has none.

Init ==
    /\ active = [s \in SystemIds |-> TRUE]
    /\ renderable \in RenderableChoices
    /\ currentmap = None
    /\ map_size = MapSizes
    /\ entities = [e \in EntityIds |->
                       IF e = 0
                       THEN [s \in {Physics} |-> [position |-> FocusPosition]]
                       ELSE <<>>]
    /\ entity_ids = [s \in SystemIds |-> IF s = Physics THEN <<0>> ELSE <<>>]
    /\ camera_pos = <<0, 0>>
    /\ size = <<4, 4>>
    /\ pos = <<0, 0>>
    /\ do_scroll \in BOOLEAN
    /\ focus_entity = FALSE
    /\ entity_to_focus = NoneId
    /\ has_camera_updated = FALSE
    /\ force_camera_update \in BOOLEAN
    /\ stack = <<>>
    /\ events = [n |-> 0, cascade |-> FALSE]
    /\ last = NewCall("init", <<>>)

Next ==
    \/ update
    \/ \E value \in ViewSizes : on_size(value)
    \/ \E d \in DragDeltas : on_touch_move(d[1], d[2])
    \/ \E value \in {NoneId, 0, StaleId} : on_entity_to_focus(value)
    \/ \E system \in Maps \cup {View} : on_add_system(system)
    \/ \E system \in Maps \cup {View} : on_remove_system(system)
    \/ Assign
    \/ Cascade

Spec == Init /\ [][Next]_vars

--------------------------------------------------------------------------
\* The component specification: create_component, remove_entity and
\* save_component called on two systems of a world whose entities start
\* without components.

ComponentSystems == {Physics, "map_a"}
ComponentData == {[position |-> <<3, 1>>], [position |-> <<5, 5>>]}

TotalIds == Len(entity_ids[Physics]) + Len(entity_ids["map_a"])

call_create_component(system, entity_id, data) ==
    /\ Idle
    /\ TotalIds < MaxIds
    /\ LET o == create_component(entities, entity_ids[system], system,
                                 entity_id, data)
       IN  /\ entities' = o.entities
           /\ entity_ids' = [entity_ids EXCEPT ![system] = o.entity_ids]
           /\ last' = [NewCall("create_component",
                               <<system, entity_id, data>>)
                          EXCEPT !.error = o.error]
    /\ UNCHANGED <<active, renderable, currentmap, map_size, camera_pos,
                   size, pos, do_scroll, focus_entity, entity_to_focus,
                   has_camera_updated, force_camera_update, stack, events>>

\* a plausible slip: removing the entity also drops its stored component
call_remove_entity_purging(system, entity_id) ==
    /\ Idle
    /\ LET o == remove_entity(entity_ids[system], entity_id)
       IN  /\ entity_ids' = [entity_ids EXCEPT ![system] = o.entity_ids]
           /\ entities' =
                 IF o.error = "none" /\ entity_id \in DOMAIN entities
                 THEN [entities EXCEPT ![entity_id] =
                          [s \in DOMAIN @ \ {system} |-> @[s]]]
                 ELSE entities
           /\ last' = [NewCall("remove_entity", <<system, entity_id>>)
                          EXCEPT !.error = o.error]
    /\ UNCHANGED <<active, renderable, currentmap, map_size,
                   camera_pos, size, pos, do_scroll, focus_entity,
                   entity_to_focus, has_camera_updated,
                   force_camera_update, stack, events>>

call_remove_entity(system, entity_id) ==
    /\ Idle
    /\ LET o == remove_entity(entity_ids[system], entity_id)
       IN  /\ entity_ids' = [entity_ids EXCEPT ![system] = o.entity_ids]
           /\ last' = [NewCall("remove_entity", <<system, entity_id>>)
                          EXCEPT !.error = o.error]
    /\ UNCHANGED <<active, renderable, currentmap, map_size, entities,
                   camera_pos, size, pos, do_scroll, focus_entity,
                   entity_to_focus, has_camera_updated,
                   force_camera_update, stack, events>>

call_save_component(system, entity_id) ==
    /\ Idle
    /\ LET o == save_component(entities, system, entity_id)
       IN  last' = [NewCall("save_component", <<system, entity_id>>)
                       EXCEPT !.error = o.error, !.ret = o.ret]
    /\ UNCHANGED <<active, renderable, currentmap, map_size, entities,
                   entity_ids, camera_pos, size, pos, do_scroll,
                   focus_entity, entity_to_focus, has_camera_updated,
                   force_camera_update, stack, events>>

InitComponents ==
    /\ active = [s \in SystemIds |-> TRUE]
    /\ renderable = [s \in SystemIds |-> FALSE]
    /\ currentmap = None
    /\ map_size = MapSizes
    /\ entities = [e \in EntityIds |-> <<>>]
    /\ entity_ids = [s \in SystemIds |-> <<>>]
    /\ camera_pos = <<0, 0>>
    /\ size = <<4, 4>>
    /\ pos = <<0, 0>>
    /\ do_scroll = FALSE
    /\ focus_entity = FALSE
    /\ entity_to_focus = NoneId
    /\ has_camera_updated = FALSE
    /\ force_camera_update = FALSE
    /\ stack = <<>>
    /\ events = [n |-> 0, cascade |-> FALSE]
    /\ last = NewCall("init", <<>>)

NextComponents ==
    \/ \E system \in ComponentSystems, entity_id \in EntityIds \cup {StaleId},
          data \in ComponentData :
          call_create_component(system, entity_id, data)
    \/ \E system \in ComponentSystems, entity_id \in EntityIds \cup {StaleId} :
          call_remove_entity(system, entity_id)
    \/ \E system \in ComponentSystems, entity_id \in EntityIds \cup {StaleId} :
          call_save_component(system, entity_id)

SpecComponents == InitComponents /\ [][NextComponents]_vars

--------------------------------------------------------------------------
\* The clamp specification: lock_scroll called on chosen cameras, maps and
\* viewports, and the camera moved by what it returns.

ClampCameras == {<<x, y>> : x \in {-4, 0, 1}, y \in {-2, 0}}
ClampPositions == {<<0, 0>>, <<2, -2>>}
ClampDeltas == {<<0, 0>>, <<-3, 1>>, <<2, -5>>, <<-100, 0>>, <<100, 0>>}

\* camera_pos, pos, size, map_size; the last one is a map of 1500 x 1500
\* under a viewport of 800 x 600
ClampCases ==
    {<<c, p, sz, ms>> : c \in ClampCameras, p \in ClampPositions,
                        sz \in ViewSizes, ms \in {<<8, 8>>, <<6, 4>>}}
    \cup {<<<<0, 0>>, <<0, 0>>, <<1600, 1200>>, <<3000, 3000>>>>}

call_lock_scroll(distance_x, distance_y) ==
    /\ Idle
    /\ LET d == lock_scroll(camera_pos, map_size[currentmap], size, pos,
                            distance_x, distance_y)
       IN  last' = [NewCall("lock_scroll", <<distance_x, distance_y>>)
                       EXCEPT !.dist = d]
    /\ UNCHANGED <<active, renderable, currentmap, map_size, entities,
                   entity_ids, camera_pos, size, pos, do_scroll,
                   focus_entity, entity_to_focus, has_camera_updated,
                   force_camera_update, stack, events>>

\* the camera moved by the delta lock_scroll returned
\* (camera_pos[0] += dist_x; camera_pos[1] += dist_y)
move_camera ==
    /\ Idle
    /\ last.op = "lock_scroll"
    /\ InReach(<<camera_pos[1] + last.dist[1], camera_pos[2] + last.dist[2]>>)
    /\ camera_pos' = <<camera_pos[1] + last.dist[1],
                       camera_pos[2] + last.dist[2]>>
    /\ last' = [NewCall("move_camera", last.arg) EXCEPT !.dist = last.dist]
    /\ UNCHANGED <<active, renderable, currentmap, map_size, entities,
                   entity_ids, size, pos, do_scroll, focus_entity,
                   entity_to_focus, has_camera_updated,
                   force_camera_update, stack, events>>

InitClamp ==
    /\ active = [s \in SystemIds |-> TRUE]
    /\ renderable = [s \in SystemIds |-> FALSE]
    /\ currentmap = "map_a"
    /\ \E c \in ClampCases :
          /\ camera_pos = c[1]
          /\ pos = c[2]
          /\ size = c[3]
          /\ map_size = [MapSizes EXCEPT !.map_a = c[4]]
    /\ entities = [e \in EntityIds |-> <<>>]
    /\ entity_ids = [s \in SystemIds |-> <<>>]
    /\ do_scroll = FALSE
    /\ focus_entity = FALSE
    /\ entity_to_focus = NoneId
    /\ has_camera_updated = FALSE
    /\ force_camera_update = FALSE
    /\ stack = <<>>
    /\ events = [n |-> 0, cascade |-> FALSE]
    /\ last = NewCall("init", <<>>)

NextClamp ==
    \/ \E d \in ClampDeltas : call_lock_scroll(d[1], d[2])
    \/ move_camera

SpecClamp == InitClamp /\ [][NextClamp]_vars

--------------------------------------------------------------------------
\* The lifecycle specification: the four hooks of GameSystem called on the
\* systems of one world, in any order.

\* a plausible slip: the initialisation hook switches the system on
on_init_system_activates(system) ==
    /\ Idle
    /\ active' = [active EXCEPT ![system] = TRUE]
    /\ last' = NewCall("on_init_system", system)
    /\ UNCHANGED <<renderable, currentmap, map_size, entities,
                   entity_ids, camera_pos, size, pos, do_scroll,
                   focus_entity, entity_to_focus, has_camera_updated,
                   force_camera_update, stack, events>>

\* GameSystem.on_init_system (pass)
on_init_system(system) ==
    /\ Idle
    /\ last' = NewCall("on_init_system", system)
    /\ UNCHANGED <<active, renderable, currentmap, map_size, entities,
                   entity_ids, camera_pos, size, pos, do_scroll,
                   focus_entity, entity_to_focus, has_camera_updated,
                   force_camera_update, stack, events>>

\* GameSystem.on_delete_system (pass)
on_delete_system(system) ==
    /\ Idle
    /\ last' = NewCall("on_delete_system", system)
    /\ UNCHANGED <<active, renderable, currentmap, map_size, entities,
                   entity_ids, camera_pos, size, pos, do_scroll,
                   focus_entity, entity_to_focus, has_camera_updated,
                   force_camera_update, stack, events>>

\* the systems as constructed: active = BooleanProperty(True)
InitLifecycle ==
    /\ active = [s \in SystemIds |-> TRUE]
    /\ renderable = [s \in SystemIds |-> FALSE]
    /\ currentmap = None
    /\ map_size = MapSizes
    /\ entities = [e \in EntityIds |-> <<>>]
    /\ entity_ids = [s \in SystemIds |-> <<>>]
    /\ camera_pos = <<0, 0>>
    /\ size = <<4, 4>>
    /\ pos = <<0, 0>>
    /\ do_scroll = FALSE
    /\ focus_entity = FALSE
    /\ entity_to_focus = NoneId
    /\ has_camera_updated = FALSE
    /\ force_camera_update = FALSE
    /\ stack = <<>>
    /\ events = [n |-> 0, cascade |-> FALSE]
    /\ last = NewCall("init", <<>>)

NextLifecycle ==
    \/ \E system \in SystemIds : on_init_system(system)
    \/ \E system \in SystemIds : on_add_system(system)
    \/ \E system \in SystemIds : on_remove_system(system)
    \/ \E system \in SystemIds : on_delete_system(system)

SpecLifecycle == InitLifecycle /\ [][NextLifecycle]_vars

--------------------------------------------------------------------------
\* Properties.

Range(f) == {f[k] : k \in DOMAIN f}
CascadeFrames == {k \in DOMAIN stack : stack[k].proc = "on_camera_pos"}

\* C1: with force_camera_update enabled and has_camera_updated initially
\* false, the cascade starts on the odd-numbered camera_pos events and on
\* no even-numbered one, and once the handler of an event has returned
\* has_camera_updated is true after an odd-numbered event and false after
\* an even-numbered one.
C1_ToggleParity ==
    force_camera_update =>
        /\ events.cascade = (events.n = 1)
        /\ CascadeFrames = {} => (has_camera_updated = (events.n = 1))

\* C2: GameMap.on_add_system always makes the added map the current map;
\* GameMap.on_remove_system clears the current map exactly when it is the
\* map being removed and leaves any other current map in place.
C2_CurrentMap ==
    [][/\ (last'.op = "on_add_system" /\ last'.arg \in Maps)
            => currentmap' = last'.arg
       /\ (last'.op = "on_remove_system" /\ last'.arg \in Maps)
            => currentmap' = IF currentmap = last'.arg THEN None
                             ELSE currentmap]_vars

\* map_a was added, map_b was added after it, and map_a has been removed:
\* map_b is still the current map
C2_Witness ==
    /\ last.op = "on_remove_system"
    /\ last.arg = "map_a"
    /\ ~active["map_a"]
    /\ active["map_b"]
    /\ currentmap = "map_b"

\* the camera at the origin of a 1500 x 1500 map under an 800 x 600
\* viewport at (0, 0), after lock_scroll was called with the delta arg
C3_Case(arg) ==
    /\ camera_pos = <<0, 0>>
    /\ pos = <<0, 0>>
    /\ size = <<1600, 1200>>
    /\ map_size[currentmap] = <<3000, 3000>>
    /\ last.op = "lock_scroll"
    /\ last.arg = arg

\* C3 as stated: in that case lock_scroll(-50, 0) returns dx' = 0.
C3_Original == C3_Case(<<-100, 0>>) => last.dist[1] = 0

\* C3 as amended: in that case lock_scroll(-50, 0) returns the delta
\* unchanged, (-50, 0); it is the positive delta that is clamped:
\* lock_scroll(50, 0) returns dx' = 0.
C3_Amended ==
    /\ C3_Case(<<-100, 0>>) => last.dist = <<-100, 0>>
    /\ C3_Case(<<100, 0>>) => last.dist[1] = 0

C3_Witness == C3_Case(<<-100, 0>>) /\ last.dist[1] = -100

\* the rectangle [c, c + sz] lies within [pos, pos + ms] on each axis
CameraWithinMap(c, sz, ms) ==
    \A a \in {1, 2} : pos[a] <= c[a] /\ c[a] + sz[a] <= pos[a] + ms[a]

\* the rectangle [pos, pos + sz] lies within [c, c + ms] on each axis
ViewportWithinMap(c, sz, ms) ==
    \A a \in {1, 2} : c[a] <= pos[a] /\ pos[a] + sz[a] <= c[a] + ms[a]

\* a focus-follow update, a drag or a resize has just returned or raised,
\* with a current map at least as large as the viewport before and after
C4_Case ==
    /\ Idle
    /\ last.op \in {"update", "on_touch_move", "on_size"}
    /\ currentmap # None
    /\ \A a \in {1, 2} : /\ map_size[currentmap][a] >= size[a]
                         /\ map_size[currentmap][a] >= last.size[a]

C5_GuardSetFirst ==
    /\ (\E k \in CascadeFrames : stack[k].called # <<>>)
           => has_camera_updated
    /\ Cardinality(CascadeFrames) <= 1

\* C6: a finished cascade has invoked update(None) exactly once on each
\* renderable, active system other than the viewport, and on no other.
C6_CascadeTargets ==
    last.cascaded =>
        LET want == {s \in SystemIds \ {View} : renderable[s] /\ active[s]}
        IN  /\ Range(last.cascade) = want
            /\ Len(last.cascade) = Cardinality(want)

\* C7: no entity id appears twice in a system's entity_ids.
C7_NoDuplicates ==
    \A s \in SystemIds :
        \A i, j \in DOMAIN entity_ids[s] :
            entity_ids[s][i] = entity_ids[s][j] => i = j

\* C8: remove_entity with an id that is not in entity_ids raises the
\* not-found error (ValueError) and leaves entity_ids as it was; with an
\* id that is in entity_ids it returns and takes out one entry holding
\* that id, the first, the other entries keeping their order; the lists of
\* the other systems are unchanged.
C8_RemoveEntity ==
    [][last'.op = "remove_entity" =>
         LET s == last'.arg[1]
             e == last'.arg[2]
             ids == entity_ids[s]
         IN  /\ \A t \in SystemIds \ {s} : entity_ids'[t] = entity_ids[t]
             /\ IF e \notin Range(ids)
                THEN /\ last'.error = "ValueError"
                     /\ entity_ids'[s] = ids
                ELSE /\ last'.error = "none"
                     /\ \E i \in DOMAIN ids :
                           /\ ids[i] = e
                           /\ \A j \in 1 .. (i - 1) : ids[j] # e
                           /\ entity_ids'[s] =
                                 SubSeq(ids, 1, i - 1)
                                     \o SubSeq(ids, i + 1, Len(ids))]_vars

\* an id was removed and the two entries left hold other ids
C8_Witness ==
    /\ last.op = "remove_entity"
    /\ last.error = "none"
    /\ Len(entity_ids[last.arg[1]]) = 2
    /\ last.arg[2] \notin Range(entity_ids[last.arg[1]])

\* the slot of system s in entity e: <<data>>, or <<>> if there is none
Slot(ents, s, e) ==
    IF e \in DOMAIN ents /\ s \in DOMAIN ents[e] THEN <<ents[e][s]>> ELSE <<>>

\* C9: save_component right after create_component(id, data) on the same
\* system returns generate_component_data(data); save_component returns
\* what the entity's slot for the system_id holds and raises the not-found
\* error (KeyError) when there is no such slot or entity; and the slot
\* changes only by a create_component for that entity and system.
C9_RoundTrip ==
    [][/\ (/\ last.op = "create_component"
           /\ last.error = "none"
           /\ last'.op = "save_component"
           /\ last'.arg = <<last.arg[1], last.arg[2]>>)
            => /\ last'.error = "none"
               /\ last'.ret = <<generate_component_data(last.arg[3])>>
       /\ last'.op = "save_component" =>
             LET slot == Slot(entities, last'.arg[1], last'.arg[2])
             IN  IF slot = <<>>
                 THEN last'.error = "KeyError" /\ last'.ret = <<>>
                 ELSE last'.error = "none" /\ last'.ret = slot
       /\ \A s \in SystemIds, e \in EntityIds :
             Slot(entities', s, e) # Slot(entities, s, e)
                 => /\ last'.op = "create_component"
                    /\ last'.arg[1] = s
                    /\ last'.arg[2] = e]_vars

\* a saved component was returned
C9_Witness ==
    /\ last.op = "save_component"
    /\ last.error = "none"
    /\ last.ret = Slot(entities, last.arg[1], last.arg[2])
    /\ last.ret # <<>>

\* C10: after a focus-follow update that computed the clamped delta dist:
\* if |dist_x| + |dist_y| < 1 the camera is where it was and no camera_pos
\* event has fired; otherwise camera_pos is the old camera_pos plus dist.
C10_DeadZone ==
    (Idle /\ last.op = "update" /\ last.dist # NoDist) =>
        IF Abs(last.dist[1]) + Abs(last.dist[2]) < DeadZone
        THEN camera_pos = last.camera_pos /\ last.events = 0
        ELSE camera_pos = <<last.camera_pos[1] + last.dist[1],
                            last.camera_pos[2] + last.dist[2]>>

\* C11: on every axis where the camera is within bounds, the far and the
\* near boundary included (pos + size - map_size <= camera_pos <= pos),
\* lock_scroll(0, 0) returns 0; so with both axes within bounds it returns
\* (0, 0).
C11_ClampIdempotent ==
    (last.op = "lock_scroll" /\ last.arg = <<0, 0>>) =>
        /\ \A a \in {1, 2} :
              (/\ pos[a] + size[a] - map_size[currentmap][a] <= camera_pos[a]
               /\ camera_pos[a] <= pos[a]) => last.dist[a] = 0
        /\ ViewportWithinMap(camera_pos, size, map_size[currentmap])
              => last.dist = <<0, 0>>

\* lock_scroll(0, 0) was called with the camera on the far boundary of
\* the x axis and on the near boundary of the y axis, the two apart
C11_Witness ==
    /\ last.op = "lock_scroll"
    /\ last.arg = <<0, 0>>
    /\ camera_pos[1] = pos[1] + size[1] - map_size[currentmap][1]
    /\ camera_pos[1] < pos[1]
    /\ camera_pos[2] = pos[2]
    /\ pos[2] + size[2] - map_size[currentmap][2] < camera_pos[2]
    /\ last.dist = <<0, 0>>

\* the step calls GameView.update with focus_entity true and an
\* entity_to_focus that is no entity of gameworld.entities: the world's
\* tick, or the cascade reaching the viewport
C12_StaleUpdate ==
    /\ focus_entity
    /\ entity_to_focus \notin DOMAIN entities
    /\ \/ Idle /\ last'.op = "update"
       \/ /\ ~Idle
          /\ Top(stack).proc = "on_camera_pos"
          /\ Eligible(Top(stack).i) # {}
          /\ SystemOrder[Min(Eligible(Top(stack).i))] = View

\* C12: a focus-follow update whose entity_to_focus is no entity of
\* gameworld.entities raises the not-found error (KeyError) to the caller,
\* every running handler is left, and camera_pos and has_camera_updated
\* are what they were before the call.
C12_StaleFocusRaises ==
    [][C12_StaleUpdate =>
         /\ last'.error = "KeyError"
         /\ stack' = <<>>
         /\ camera_pos' = camera_pos
         /\ has_camera_updated' = has_camera_updated]_vars

\* the world's tick found the stale id and raised; nothing has moved
C12_Witness ==
    /\ Idle
    /\ last.op = "update"
    /\ last.error = "KeyError"
    /\ focus_entity
    /\ entity_to_focus = StaleId
    /\ camera_pos = last.camera_pos
    /\ last.events = 0

\* C13: focus_entity is true exactly when entity_to_focus is not None, in
\* the initial state and after every assignment to entity_to_focus.
C13_FocusFlag == focus_entity = (entity_to_focus # NoneId)

\* entity_to_focus held an entity id and was set to None again
C13_Witness ==
    /\ last.op = "on_entity_to_focus"
    /\ last.arg = NoneId
    /\ entity_to_focus = NoneId
    /\ ~focus_entity

\* what a step does to the active flags: on_add_system sets the flag of
\* its system, on_remove_system clears it, on_init_system and
\* on_delete_system leave every flag as it was
C14_Hooks ==
    /\ last'.op = "on_add_system"
         => active' = [active EXCEPT ![last'.arg] = TRUE]
    /\ last'.op = "on_remove_system"
         => active' = [active EXCEPT ![last'.arg] = FALSE]
    /\ last'.op \in {"on_init_system", "on_delete_system"}
         => active' = active

\* C14 as stated: active is false for every constructed system until its
\* on_add_system is called, true after on_add_system, false after
\* on_remove_system, and on_init_system and on_delete_system leave it
\* unchanged.
C14_Original ==
    /\ \A s \in SystemIds : ~active[s]
    /\ [][C14_Hooks]_vars

\* C14 as amended: active is true for every constructed system, stays
\* true after on_add_system, is false after on_remove_system and true
\* again after the next on_add_system; on_init_system and
\* on_delete_system leave it unchanged.
C14_Amended ==
    /\ \A s \in SystemIds : active[s]
    /\ [][C14_Hooks]_vars

\* a system nobody has added yet was initialised and is active
C14_Witness ==
    /\ last.op = "on_init_system"
    /\ active[last.arg]
    /\ currentmap = None
    /\ \A s \in SystemIds : active[s]

\* C15: remove_entity leaves every entity's stored components as they
\* were and changes no other system's entity_ids; save_component called
\* right after a remove_entity that returned, for the same system and
\* entity, returns the data the slot still holds and raises nothing.
C15_RemoveKeepsData ==
    [][/\ last'.op = "remove_entity" =>
             /\ entities' = entities
             /\ \A t \in SystemIds \ {last'.arg[1]} :
                   entity_ids'[t] = entity_ids[t]
       /\ (/\ last.op = "remove_entity"
           /\ last.error = "none"
           /\ last'.op = "save_component"
           /\ last'.arg = last.arg)
            => /\ last'.error = "none"
               /\ last'.ret # <<>>
               /\ last'.ret = Slot(entities, last.arg[1], last.arg[2])]_vars

\* a component was created, its entity removed from the system, and
\* save_component still returned the stored data
C15_Witness ==
    /\ last.op = "save_component"
    /\ last.error = "none"
    /\ last.ret # <<>>
    /\ last.arg[2] \notin Range(entity_ids[last.arg[1]])
    /\ \E s \in ComponentSystems \ {last.arg[1]} : entity_ids[s] # <<>>

\* C16: after a drag (on_touch_move with dx, dy): when do_scroll is false
\* or |dx| + |dy| <= 2, camera_pos is what it was and no camera_pos event
\* has fired; when do_scroll is true and |dx| + |dy| > 2, camera_pos is
\* the old camera_pos plus the clamped delta if there is a current map,
\* plus (dx, dy) if gameworld.currentmap is None.
C16_Drag ==
    (Idle /\ last.op = "on_touch_move") =>
        LET d == IF currentmap # None
                 THEN lock_scroll(last.camera_pos, map_size[currentmap],
                                  size, pos, last.arg[1], last.arg[2])
                 ELSE last.arg
        IN  IF ~do_scroll
               \/ Abs(last.arg[1]) + Abs(last.arg[2]) <= DragThreshold
            THEN camera_pos = last.camera_pos /\ last.events = 0
            ELSE camera_pos = <<last.camera_pos[1] + d[1],
                                last.camera_pos[2] + d[2]>>

\* C17: no call ends at the recursion limit: the cascades started by a
\* camera_pos change, also those nested in an update the cascade itself
\* invoked, finish after finitely many update(None) calls.
C17_CascadeTerminates == last.error # "RuntimeError"

\* C18: gameworld.currentmap is None or a GameMap whose active flag is
\* true.
C18_CurrentMapActive ==
    currentmap # None => (currentmap \in Maps /\ active[currentmap])

\* map_b has been removed and map_a added after that: the current map
\* is the active one
C18_Witness ==
    /\ last.op = "on_add_system"
    /\ last.arg = "map_a"
    /\ ~active["map_b"]
    /\ active["map_a"]
    /\ currentmap = "map_a"

\* the step is a lock_scroll(0, 0) that directly follows a move of the
\* camera by the delta lock_scroll returned
C19_Reclamp ==
    /\ last.op = "move_camera"
    /\ last'.op = "lock_scroll"
    /\ last'.arg = <<0, 0>>

\* C19 as stated: whatever camera_pos, pos, size, map_size and the
\* proposed delta are, once the camera has been moved by the delta
\* lock_scroll returned, an immediately following lock_scroll(0, 0)
\* returns (0, 0).
C19_Original == [][C19_Reclamp => last'.dist = <<0, 0>>]_vars

\* C19 as amended: on every axis where map_size is at least size, once
\* the camera has been moved by the delta lock_scroll returned, an
\* immediately following lock_scroll(0, 0) returns 0; on an axis where
\* map_size is smaller than size it returns size - map_size or
\* map_size - size, never 0.
C19_Amended ==
    [][C19_Reclamp =>
         \A a \in {1, 2} :
            LET ms == map_size[currentmap][a]
            IN  IF ms >= size[a]
                THEN last'.dist[a] = 0
                ELSE last'.dist[a] \in {size[a] - ms, ms - size[a]}]_vars

\* the camera was moved by a delta that lock_scroll had cut on both axes,
\* under a map larger than the viewport, and rests on a fixed point
C19_Witness ==
    /\ last.op = "move_camera"
    /\ last.dist[1] # last.arg[1]
    /\ last.dist[2] # last.arg[2]
    /\ \A a \in {1, 2} : map_size[currentmap][a] > size[a]
    /\ lock_scroll(camera_pos, map_size[currentmap], size, pos, 0, 0)
           = <<0, 0>>

==========================================================================
